---- MODULE Spec2Model ----
(***************************************************************************)
(* Model of the FocusAid content script (src/unnamed/part_000): the host   *)
(* blocker, the allowlist loader, the per-post classifier (processPost),   *)
(* the full pass (processAll) and the MutationObserver + debounce          *)
(* scheduler (debounceProcess).                                            *)
(*                                                                         *)
(* JavaScript strings are modelled as sequences of one-character strings,  *)
(* so that toLowerCase, replace(/^@+/, ""), trim, startsWith and the       *)
(* href regular expression are computed, not assumed.                      *)
(*                                                                         *)
(* The script runs on a single-threaded event loop: a synchronous call     *)
(* chain runs to completion before the page, a timer or a fetch            *)
(* continuation runs.  A pass is modelled step by step (one step per       *)
(* function call inside processAll); while a pass is on the stack no other *)
(* action is enabled.                                                      *)
(***************************************************************************)
EXTENDS Naturals, Sequences, FiniteSets, TLC

VARIABLES
    host,          \* location.hostname
    blocklist,     \* `blocklist` (part_000:9)
    spc,           \* position of the startup async function (part_000:325-337)
    allowlist,     \* `allowlist` (part_000:106)
    items,         \* the article elements of the page, with their attributes
    suggested,     \* the "suggested posts" container: absent / header / blocked
    pendingFlush,  \* `pendingFlush` (part_000:107): 0 is null, else a timer id
    timers,        \* timers armed by setTimeout and not yet fired
    observer,      \* TRUE once installObserver has run
    pc,            \* position inside processAll ("idle" when not on the stack)
    queue,         \* posts still to be visited by posts.forEach(processPost)
    ran,           \* suppression routines completed in the pass on the stack
    thrown,        \* routine that threw in the pass on the stack, or "none"
    queued,        \* a childList mutation record awaits delivery to the observer
    muts,          \* number of mutations made by the page so far
    reloads,       \* number of allowlist reloads so far
    burstNotifs,   \* debounceProcess calls since the scheduler last left idle
    burstPasses,   \* processAll invocations made by timers for that burst
                   \* (both forgotten when the burst's pass has returned)
    last,          \* the last processPost call of the pass on the stack
    unknownAtStart,\* items carrying the unknown marker when that pass began
    hiddenAs,      \* per item: identifier for which it was last hidden as non-member
    loadState,     \* outcome of the last allowlist load: "none", "ok" or "failed"
    startPasses,   \* processAll invocations made before installObserver
    nraw,          \* input of the function under a pure-function specification
    nout           \* its output

vars == <<host, blocklist, spc, allowlist, items, suggested, pendingFlush, timers,
          observer, pc, queue, ran, thrown, queued, muts, reloads, burstNotifs,
          burstPasses, last, unknownAtStart, hiddenAs, loadState, startPasses,
          nraw, nout>>

(***************************************************************************)
(* Bounds                                                                  *)
(***************************************************************************)
NItems == 2
MaxLinks == 2
MaxMuts == 2
MaxReloads == 1
MaxTimers == 2
MaxLen == 3

\* the notifications of a burst are counted up to MaxBurst
MaxBurst == 3

Items == 1..NItems

(***************************************************************************)
(* Strings                                                                 *)
(***************************************************************************)
NULL == <<"null">>

Truthy(s) == s # NULL /\ s # <<>>

LowerChar(c) ==
    CASE c = "A" -> "a"
      [] c = "B" -> "b"
      [] c = "E" -> "e"
      [] c = "I" -> "i"
      [] c = "P" -> "p"
      [] c = "R" -> "r"
      [] c = "S" -> "s"
      [] c = "U" -> "u"
      [] c = "W" -> "w"
      [] c = "X" -> "x"
      [] OTHER -> c

toLowerCase(s) == [k \in 1..Len(s) |-> LowerChar(s[k])]

IsSpace(c) == c \in {" ", "\t"}

RECURSIVE trimStart(_)
trimStart(s) == IF s # <<>> /\ IsSpace(Head(s)) THEN trimStart(Tail(s)) ELSE s

RECURSIVE trimEnd(_)
trimEnd(s) ==
    IF s # <<>> /\ IsSpace(s[Len(s)]) THEN trimEnd(SubSeq(s, 1, Len(s) - 1)) ELSE s

trim(s) == trimEnd(trimStart(s))

\* s.replace(/^@+/, "")
RECURSIVE stripLeadingAt(_)
stripLeadingAt(s) == IF s # <<>> /\ Head(s) = "@" THEN stripLeadingAt(Tail(s)) ELSE s

startsWith(s, p) == Len(s) >= Len(p) /\ SubSeq(s, 1, Len(p)) = p

endsWith(s, p) == Len(s) >= Len(p) /\ SubSeq(s, Len(s) - Len(p) + 1, Len(s)) = p

includes(s, p) == \E k \in 1..Len(s) : startsWith(SubSeq(s, k, Len(s)), p)

\* the longest prefix of s made of characters outside stop
RECURSIVE takeUntil(_, _)
takeUntil(s, stop) ==
    IF s = <<>> \/ Head(s) \in stop THEN <<>> ELSE <<Head(s)>> \o takeUntil(Tail(s), stop)

normalizeUsername(raw) ==
    IF ~Truthy(raw) THEN NULL ELSE trim(stripLeadingAt(toLowerCase(raw)))


(***************************************************************************)
(* Host blocker                                                            *)
(***************************************************************************)
InstagramHost ==
    <<"w","w","w",".","i","n","s","t","a","g","r","a","m",".","c","o","m">>

HostX == <<"x",".","i","o">>

HostAX == <<"a",".","x",".","i","o">>

Hosts == {InstagramHost, HostX, HostAX}

\* new URL(s).hostname for "scheme://host[:port][/path]"; an empty host throws
urlHostname(s) ==
    LET k == CHOOSE j \in 1..Len(s) : startsWith(SubSeq(s, j, Len(s)), <<":","/","/">>)
               /\ \A m \in 1..(j - 1) :
                      ~startsWith(SubSeq(s, m, Len(s)), <<":","/","/">>)
        h == takeUntil(SubSeq(s, k + 3, Len(s)), {"/", "?", "#", ":"})
    IN  IF h = <<>> THEN NULL ELSE toLowerCase(h)

normalizeHost(raw) ==
    IF ~Truthy(raw) THEN NULL
    ELSE LET trimmed == toLowerCase(trim(raw))
         IN  IF trimmed = <<>> THEN NULL
             ELSE IF includes(trimmed, <<":","/","/">>) THEN urlHostname(trimmed)
             ELSE takeUntil(trimmed, {"/"})

isBlockedHost(hostname) ==
    LET h == toLowerCase(hostname)
    IN  IF h = <<>> THEN FALSE
        ELSE IF h \in blocklist THEN TRUE
        ELSE \E entry \in blocklist :
                \/ /\ startsWith(entry, <<"*", ".">>)
                   /\ LET suffix == Tail(entry)
                      IN  h = Tail(suffix) \/ endsWith(h, suffix)
                \/ /\ ~startsWith(entry, <<"*", ".">>)
                   /\ startsWith(entry, <<".">>)
                   /\ (h = Tail(entry) \/ endsWith(h, entry))

\* text.split("\n").map(trim).filter(line && !line.startsWith("#"))
keptLines(lines) ==
    { trim(lines[k]) : k \in { j \in 1..Len(lines) :
          trim(lines[j]) # <<>> /\ ~startsWith(trim(lines[j]), <<"#">>) } }

parseBlocklist(lines) ==
    { e \in { normalizeHost(l) : l \in keptLines(lines) } : Truthy(e) }

BlockFile1 == << <<"#"," ","x",".","i","o">>, <<" ">> >>

BlockFile2 ==
    << <<>>,
       <<" ","W","W","W",".","I","n","s","t","a","g","r","a","m",".","c","o","m","/","x">>,
       <<"*",".","x",".","i","o">>,
       <<"h","t","t","p","s",":","/","/","A",".","i","o","/","a">> >>

BlockFiles == {BlockFile1, BlockFile2}

(***************************************************************************)
(* Allowlist                                                               *)
(***************************************************************************)
Alice == <<"a","l","i","c","e">>

Bob == <<"b","o","b">>

parseAllowlist(lines) ==
    { e \in { normalizeUsername(l) : l \in keptLines(lines) } : Truthy(e) }

\* mutant: the catch block leaves the previous list in place
allowlistOnFailure_stale == allowlist

\* the catch block of loadAllowlistFromFile: allowlist = new Set()
allowlistOnFailure == {}

AllowFile1 == << <<"@","A","l","i","c","e"," ">>, <<"#"," ","b","o","b">>, <<>> >>

AllowFile2 == << <<"a","l","i","c","e">>, <<" ","B","o","b">>, <<"@">> >>

AllowFiles == {AllowFile1, AllowFile2}

(***************************************************************************)
(* Posts                                                                   *)
(***************************************************************************)
HrefAlice == <<"/">> \o Alice \o <<"/">>

HrefBob == <<"/">> \o Bob \o <<"/">>

HrefPermalink == <<"/","p","/","x","/">>

\* a profile-like link whose first path segment normalizes to the empty string
HrefAt == <<"/","@","/">>

Hrefs == {HrefAlice, HrefBob, HrefPermalink, HrefAt}

exclude ==
    { <<"p">>,
      <<"r","e","e","l">>,
      <<"s","t","o","r","i","e","s">>,
      <<"e","x","p","l","o","r","e">>,
      <<"a","c","c","o","u","n","t","s">>,
      <<"a","b","o","u","t">>,
      <<"l","e","g","a","l">>,
      <<"d","i","r","e","c","t">>,
      <<"d","e","v","e","l","o","p","e","r">>,
      <<"p","r","e","s","s">>,
      <<"p","r","i","v","a","c","y">>,
      <<"t","e","r","m","s">> }

\* querySelectorAll("a[href^='/' i]"): the hrefs of the links that start with "/"
slashLinks(links) == SelectSeq(links, LAMBDA h : startsWith(h, <<"/">>))

\* href.match(/^\/([^/?#]+)\/?/)[1], NULL when there is no match
firstSegment(href) ==
    IF startsWith(href, <<"/">>)
    THEN LET seg == takeUntil(Tail(href), {"/", "?", "#"})
         IN  IF seg = <<>> THEN NULL ELSE seg
    ELSE NULL

\* mutant: the test against the reserved set is missing
RECURSIVE extractFromLinks_noExclude(_)
extractFromLinks_noExclude(links) ==
    IF links = <<>> THEN NULL
    ELSE LET href == Head(links)
         IN  IF href = <<>> THEN extractFromLinks_noExclude(Tail(links))
             ELSE IF \/ startsWith(href, <<"/","p","/">>)
                     \/ startsWith(href, <<"/","r","e","e","l","/">>)
                     \/ startsWith(href, <<"/","s","t","o","r","i","e","s","/">>)
                  THEN extractFromLinks_noExclude(Tail(links))
             ELSE LET segment == firstSegment(href)
                  IN  IF segment = NULL THEN extractFromLinks_noExclude(Tail(links))
                      ELSE normalizeUsername(segment)

RECURSIVE extractFromLinks(_)
extractFromLinks(links) ==
    IF links = <<>> THEN NULL
    ELSE LET href == Head(links)
         IN  IF href = <<>> THEN extractFromLinks(Tail(links))
             ELSE IF \/ startsWith(href, <<"/","p","/">>)
                     \/ startsWith(href, <<"/","r","e","e","l","/">>)
                     \/ startsWith(href, <<"/","s","t","o","r","i","e","s","/">>)
                  THEN extractFromLinks(Tail(links))
             ELSE LET segment == firstSegment(href)
                  IN  IF segment = NULL THEN extractFromLinks(Tail(links))
                      ELSE IF toLowerCase(segment) \in exclude
                           THEN extractFromLinks(Tail(links))
                      ELSE normalizeUsername(segment)

extractUsernameFromPost(article) == extractFromLinks(slashLinks(article.links))

NoItem ==
    [where |-> "absent", links |-> <<>>, processed |-> FALSE, hidden |-> FALSE,
     unknown |-> FALSE, display |-> ""]

\* mutant: the unknown marker is never written
hidePost_noUnknownMark(article, username) ==
    [article EXCEPT !.display = "none", !.hidden = TRUE, !.unknown = FALSE]

hidePost(article, username) ==
    [article EXCEPT !.display = "none",
                    !.hidden = TRUE,
                    !.unknown = ~Truthy(username)]

\* mutant: the unknown marker is not removed on reveal
revealPost_keepUnknown(article) ==
    [article EXCEPT !.display = "", !.hidden = FALSE]

revealPost(article) ==
    [article EXCEPT !.display = "", !.hidden = FALSE, !.unknown = FALSE]

\* mutant: the processed guard is missing
processPost_noGuard(article) ==
    LET a1 == [article EXCEPT !.processed = TRUE]
        username == extractUsernameFromPost(a1)
    IN  [article |-> IF ~Truthy(username) THEN hidePost(a1, username)
                     ELSE IF username \in allowlist THEN revealPost(a1)
                     ELSE hidePost(a1, username),
         extracted |-> TRUE]

\* mutant: the allowlist test is inverted
processPost_inverted(article) ==
    IF article.processed THEN [article |-> article, extracted |-> FALSE]
    ELSE LET a1 == [article EXCEPT !.processed = TRUE]
             username == extractUsernameFromPost(a1)
         IN  [article |-> IF ~Truthy(username) THEN hidePost(a1, username)
                          ELSE IF username \notin allowlist THEN revealPost(a1)
                          ELSE hidePost(a1, username),
              extracted |-> TRUE]

\* mutant: a failed extraction reveals the article
processPost_failOpen(article) ==
    IF article.processed THEN [article |-> article, extracted |-> FALSE]
    ELSE LET a1 == [article EXCEPT !.processed = TRUE]
             username == extractUsernameFromPost(a1)
         IN  [article |-> IF ~Truthy(username) THEN revealPost(a1)
                          ELSE IF username \in allowlist THEN revealPost(a1)
                          ELSE hidePost(a1, username),
              extracted |-> TRUE]

\* the article after the call, and whether the call ran the extractor
processPost(article) ==
    IF article.processed THEN [article |-> article, extracted |-> FALSE]
    ELSE LET a1 == [article EXCEPT !.processed = TRUE]
             username == extractUsernameFromPost(a1)
         IN  [article |-> IF ~Truthy(username) THEN hidePost(a1, username)
                          ELSE IF username \in allowlist THEN revealPost(a1)
                          ELSE hidePost(a1, username),
              extracted |-> TRUE]

\* mutant: articles outside the root are collected too
isPost_anywhere(its, i) == its[i].where # "absent" /\ slashLinks(its[i].links) # <<>>

\* getPostElements(document): attached articles holding a link that starts with "/"
isPost(its, i) == its[i].where = "attached" /\ slashLinks(its[i].links) # <<>>

RECURSIVE postsFrom(_, _)
postsFrom(its, i) ==
    IF i > NItems THEN <<>>
    ELSE (IF isPost(its, i) THEN <<i>> ELSE <<>>) \o postsFrom(its, i + 1)

getPostElements(its) == postsFrom(its, 1)

\* mutant: the retry reset removes the hidden marker and the inline style too
resetUnknown_reveal(its) ==
    [i \in Items |->
        IF its[i].where = "attached" /\ its[i].unknown
        THEN [its[i] EXCEPT !.processed = FALSE, !.hidden = FALSE, !.display = ""]
        ELSE its[i]]

\* mutant: the retry reset clears the processed marker of every article
resetUnknown_all(its) ==
    [i \in Items |->
        IF its[i].where = "attached"
        THEN [its[i] EXCEPT !.processed = FALSE] ELSE its[i]]

\* mutant: the retry reset is missing
resetUnknown_none(its) == its

\* unknownPosts.forEach((article) => article.removeAttribute(PROCESSED_ATTR))
resetUnknown(its) ==
    [i \in Items |->
        IF its[i].where = "attached" /\ its[i].unknown
        THEN [its[i] EXCEPT !.processed = FALSE] ELSE its[i]]


(***************************************************************************)
(* Scheduler                                                               *)
(***************************************************************************)
FreeTimer == CHOOSE t \in (1..MaxTimers) \ timers : \A u \in (1..MaxTimers) \ timers : t <= u

\* mutant: a call made while a timer is pending cancels it and arms a new one
debounceProcess_rearm ==
    LET kept == timers \ {pendingFlush}
        fresh == CHOOSE t \in (1..MaxTimers) \ timers : TRUE
    IN  [pendingFlush |-> fresh, timers |-> kept \cup {fresh}]

\* mutant: the pending guard is missing, every call arms a timer
debounceProcess_noGuard ==
    [pendingFlush |-> FreeTimer, timers |-> timers \cup {FreeTimer}]

\* the values of pendingFlush and of the set of armed timers after the call
debounceProcess ==
    IF pendingFlush # 0 THEN [pendingFlush |-> pendingFlush, timers |-> timers]
    ELSE [pendingFlush |-> FreeTimer, timers |-> timers \cup {FreeTimer}]

\* the MutationObserver callback: a call of debounceProcess, counted per burst
Notify ==
    /\ pendingFlush' = debounceProcess.pendingFlush
    /\ timers' = debounceProcess.timers
    /\ burstNotifs' = IF timers = {} THEN 1 ELSE burstNotifs + 1
    /\ burstPasses' = IF timers = {} THEN 0 ELSE burstPasses

\* nothing of the script is on the stack: the event loop may run another task
Idle == pc = "idle" /\ spc # "installObserver"

RoutineOrder ==
    <<"hideStoriesTray", "removeSuggestedForYou", "addSuggestedPostsBlocker",
      "hideRightThirdHome">>

Routines == { RoutineOrder[k] : k \in 1..Len(RoutineOrder) }

NoCall == [item |-> 0, before |-> NoItem, extracted |-> FALSE, username |-> NULL]

Unset == <<"unset">>

(***************************************************************************)
(* Initial state: the script has just been injected                        *)
(***************************************************************************)
InitPage ==
    /\ blocklist = {}
    /\ spc = "loadBlocklist"
    /\ allowlist = {}
    /\ items = [i \in Items |-> NoItem]
    /\ suggested = "absent"
    /\ pendingFlush = 0
    /\ timers = {}
    /\ observer = FALSE
    /\ pc = "idle"
    /\ queue = <<>>
    /\ ran = {}
    /\ thrown = "none"
    /\ queued = FALSE
    /\ muts = 0
    /\ reloads = 0
    /\ burstNotifs = 0
    /\ burstPasses = 0
    /\ last = NoCall
    /\ unknownAtStart = {}
    /\ hiddenAs = [i \in Items |-> NULL]
    /\ loadState = "none"
    /\ startPasses = 0

Init ==
    /\ host \in Hosts
    /\ InitPage
    /\ nraw = NULL
    /\ nout = Unset

passVars == <<pc, queue, ran, thrown, queued, last, unknownAtStart, hiddenAs>>

schedVars == <<pendingFlush, timers, burstNotifs, burstPasses>>

pureVars == <<nraw, nout>>

(***************************************************************************)
(* Startup (the async function at the end of the script)                   *)
(***************************************************************************)
\* mutant: the return after showBlockScreen is missing
AfterBlocklist_noReturn ==
    /\ spc' = IF host # InstagramHost THEN "offsite" ELSE "loadAllowlist"
    /\ UNCHANGED <<allowlist, loadState, items, suggested, observer, muts, startPasses, reloads>>
    /\ UNCHANGED <<passVars, schedVars, pureVars>>

\* await loadBlocklistFromFile() resolves; the function runs on to its next await
AfterBlocklist ==
    /\ spc' = IF isBlockedHost(host)' THEN "blocked"
              ELSE IF host # InstagramHost THEN "offsite"
              ELSE "loadAllowlist"
    /\ UNCHANGED <<allowlist, loadState, items, suggested, observer, muts, startPasses, reloads>>
    /\ UNCHANGED <<passVars, schedVars, pureVars>>

LoadBlocklistOk(file) ==
    /\ spc = "loadBlocklist"
    /\ UNCHANGED host
    /\ blocklist' = parseBlocklist(file)
    /\ AfterBlocklist

LoadBlocklistFail ==
    /\ spc = "loadBlocklist"
    /\ UNCHANGED host
    /\ blocklist' = {}
    /\ AfterBlocklist

\* await loadAllowlistFromFile() resolves; processAll() is called
AfterAllowlist ==
    /\ spc' = "firstPass"
    /\ pc' = "reset"
    /\ startPasses' = startPasses + 1
    /\ UNCHANGED <<host, blocklist, items, suggested, observer, muts, reloads>>
    /\ UNCHANGED <<queue, ran, thrown, queued, last, unknownAtStart, hiddenAs>>
    /\ UNCHANGED <<schedVars, pureVars>>

LoadAllowlistOk(file) ==
    /\ spc = "loadAllowlist"
    /\ allowlist' = parseAllowlist(file)
    /\ loadState' = "ok"
    /\ AfterAllowlist

LoadAllowlistFail ==
    /\ spc = "loadAllowlist"
    /\ allowlist' = allowlistOnFailure
    /\ loadState' = "failed"
    /\ AfterAllowlist

InstallObserver ==
    /\ spc = "installObserver"
    /\ observer' = TRUE
    /\ spc' = "done"
    /\ UNCHANGED <<host, blocklist, allowlist, loadState, items, suggested, muts, startPasses, reloads>>
    /\ UNCHANGED <<passVars, schedVars, pureVars>>

\* loadAllowlistFromFile() called again: the list is replaced wholesale
ReloadAllowlist(lines, ok) ==
    /\ spc = "done"
    /\ Idle
    /\ reloads < MaxReloads
    /\ reloads' = reloads + 1
    /\ allowlist' = IF ok THEN parseAllowlist(lines) ELSE allowlistOnFailure
    /\ loadState' = IF ok THEN "ok" ELSE "failed"
    /\ UNCHANGED <<host, blocklist, spc, items, suggested, observer, muts, startPasses>>
    /\ UNCHANGED <<passVars, schedVars, pureVars>>


(***************************************************************************)
(* The full pass, processAll(document), one step per call it makes         *)
(***************************************************************************)
AfterPosts(q) == IF q = <<>> THEN "hideStoriesTray" ELSE "posts"

\* the retry reset and getPostElements(root)
PassBegin ==
    /\ pc = "reset"
    /\ items' = resetUnknown(items)
    /\ unknownAtStart' = { i \in Items : items[i].where = "attached" /\ items[i].unknown }
    /\ queue' = getPostElements(items')
    /\ pc' = AfterPosts(queue')
    /\ UNCHANGED <<host, blocklist, spc, allowlist, loadState, suggested, observer, muts, startPasses, reloads>>
    /\ UNCHANGED <<ran, thrown, queued, last, hiddenAs>>
    /\ UNCHANGED <<schedVars, pureVars>>

\* one iteration of posts.forEach(processPost)
PassClassify ==
    /\ pc = "posts"
    /\ queue # <<>>
    /\ LET i == Head(queue)
           r == processPost(items[i])
           username == IF r.extracted THEN extractUsernameFromPost(items[i]) ELSE NULL
       IN  /\ items' = [items EXCEPT ![i] = r.article]
           /\ last' = [item |-> i, before |-> items[i], extracted |-> r.extracted,
                       username |-> username]
           /\ hiddenAs' = IF r.extracted
                          THEN [hiddenAs EXCEPT ![i] =
                                   IF r.article.hidden /\ ~r.article.unknown
                                   THEN username ELSE NULL]
                          ELSE hiddenAs
    /\ queue' = Tail(queue)
    /\ pc' = AfterPosts(queue')
    /\ UNCHANGED <<host, blocklist, spc, allowlist, loadState, suggested, observer, muts, startPasses, reloads>>
    /\ UNCHANGED <<ran, thrown, queued, unknownAtStart>>
    /\ UNCHANGED <<schedVars, pureVars>>

\* mutant: the container is not searched for a placeholder before the insertion
needsBlocker_noCheck(s) == s # "absent"

\* addSuggestedPostsBlocker inserts a placeholder: a "suggested posts" header is in
\* the tree and its container holds no .ig-suggested-blocker yet
needsBlocker(s) == s = "header"

NextRoutine(r) ==
    LET k == CHOOSE j \in 1..Len(RoutineOrder) : RoutineOrder[j] = r
    IN  IF k = Len(RoutineOrder) THEN "return" ELSE RoutineOrder[k + 1]

\* routine r runs to its end; only the placeholder insertion changes the tree
RoutineRuns(r) ==
    /\ pc = r
    /\ ran' = ran \cup {r}
    /\ pc' = NextRoutine(r)
    /\ IF r = "addSuggestedPostsBlocker" /\ needsBlocker(suggested)
       THEN suggested' = "blocked" /\ queued' = observer
       ELSE UNCHANGED <<suggested, queued>>
    /\ UNCHANGED <<host, blocklist, spc, allowlist, loadState, items, observer, muts, startPasses, reloads>>
    /\ UNCHANGED <<queue, thrown, last, unknownAtStart, hiddenAs>>
    /\ UNCHANGED <<schedVars, pureVars>>

\* routine r throws (a matched node without a style object): processAll has no
\* try/catch, the exception leaves processAll
RoutineThrows(r) ==
    /\ pc = r
    /\ thrown' = r
    /\ pc' = "return"
    /\ UNCHANGED <<host, blocklist, spc, allowlist, loadState, items, suggested, observer, muts, startPasses, reloads>>
    /\ UNCHANGED <<queue, ran, queued, last, unknownAtStart, hiddenAs>>
    /\ UNCHANGED <<schedVars, pureVars>>

HideStoriesTray ==
    RoutineRuns("hideStoriesTray") \/ RoutineThrows("hideStoriesTray")

RemoveSuggestedForYou ==
    RoutineRuns("removeSuggestedForYou") \/ RoutineThrows("removeSuggestedForYou")

AddSuggestedPostsBlocker ==
    RoutineRuns("addSuggestedPostsBlocker") \/ RoutineThrows("addSuggestedPostsBlocker")

HideRightThirdHome ==
    RoutineRuns("hideRightThirdHome") \/ RoutineThrows("hideRightThirdHome")

\* processAll is left (by return or by the exception); back in the startup function
\* the next statement is installObserver(); then the queued mutation record, if any,
\* is delivered to the observer callback
PassReturn ==
    /\ pc = "return"
    /\ pc' = "idle"
    /\ spc' = IF spc = "firstPass"
              THEN (IF thrown = "none" THEN "installObserver" ELSE "failed")
              ELSE spc
    /\ queued' = FALSE
    /\ IF queued THEN Notify
       ELSE /\ UNCHANGED <<pendingFlush, timers>>
            /\ burstNotifs' = IF timers = {} THEN 0 ELSE burstNotifs
            /\ burstPasses' = IF timers = {} THEN 0 ELSE burstPasses
    /\ ran' = {}
    /\ thrown' = "none"
    /\ last' = NoCall
    /\ unknownAtStart' = {}
    /\ UNCHANGED <<host, blocklist, allowlist, loadState, items, suggested, observer, muts, startPasses, reloads>>
    /\ UNCHANGED <<queue, hiddenAs>>
    /\ UNCHANGED pureVars

\* mutant: the callback does not clear pendingFlush
TimerFire_noClear(t) ==
    /\ Idle
    /\ t \in timers
    /\ timers' = timers \ {t}
    /\ burstPasses' = burstPasses + 1
    /\ pc' = "reset"
    /\ startPasses' = IF observer THEN startPasses ELSE startPasses + 1
    /\ UNCHANGED <<host, blocklist, spc, allowlist, loadState, items, suggested, observer,
                   muts, reloads>>
    /\ UNCHANGED <<queue, ran, thrown, queued, last, unknownAtStart, hiddenAs>>
    /\ UNCHANGED <<pendingFlush, burstNotifs, pureVars>>

\* the timer callback: pendingFlush = null; processAll();
TimerFire(t) ==
    /\ Idle
    /\ t \in timers
    /\ timers' = timers \ {t}
    /\ pendingFlush' = 0
    /\ burstPasses' = burstPasses + 1
    /\ pc' = "reset"
    /\ startPasses' = IF observer THEN startPasses ELSE startPasses + 1
    /\ UNCHANGED <<host, blocklist, spc, allowlist, loadState, items, suggested, observer,
                   muts, reloads>>
    /\ UNCHANGED <<queue, ran, thrown, queued, last, unknownAtStart, hiddenAs>>
    /\ UNCHANGED <<burstNotifs, pureVars>>

(***************************************************************************)
(* The page (the external party) changes the tree                          *)
(***************************************************************************)
\* after a childList change: the observer, if installed, calls debounceProcess
Mutated ==
    /\ Idle
    /\ spc \in {"loadAllowlist", "done"}
    /\ muts < MaxMuts
    /\ Cardinality(timers) < MaxTimers
    /\ muts' = muts + 1
    /\ IF observer THEN Notify ELSE UNCHANGED schedVars
    /\ UNCHANGED <<host, blocklist, spc, allowlist, loadState, startPasses, observer, reloads>>
    /\ UNCHANGED <<passVars, pureVars>>

InsertItem(i, ls) ==
    /\ items[i].where = "absent"
    /\ items' = [items EXCEPT ![i] = [NoItem EXCEPT !.where = "attached", !.links = ls]]
    /\ UNCHANGED suggested
    /\ Mutated

AddLink(i, h) ==
    /\ items[i].where = "attached"
    /\ Len(items[i].links) < MaxLinks
    /\ items' = [items EXCEPT ![i].links = Append(@, h)]
    /\ UNCHANGED suggested
    /\ Mutated

RemoveLink(i) ==
    /\ items[i].where = "attached"
    /\ items[i].links # <<>>
    /\ items' = [items EXCEPT ![i].links = Tail(@)]
    /\ UNCHANGED suggested
    /\ Mutated

RemoveItem(i) ==
    /\ items[i].where = "attached"
    /\ items' = [items EXCEPT ![i].where = "detached"]
    /\ UNCHANGED suggested
    /\ Mutated

InsertHeader ==
    /\ suggested = "absent"
    /\ suggested' = "header"
    /\ UNCHANGED items
    /\ Mutated

InitialLinks == {<<>>} \cup { <<h>> : h \in Hrefs }

Next ==
    \/ \E f \in BlockFiles : LoadBlocklistOk(f)
    \/ LoadBlocklistFail
    \/ \E f \in AllowFiles : LoadAllowlistOk(f)
    \/ LoadAllowlistFail
    \/ InstallObserver
    \/ \E f \in AllowFiles, ok \in BOOLEAN : ReloadAllowlist(f, ok)
    \/ PassBegin
    \/ PassClassify
    \/ HideStoriesTray
    \/ RemoveSuggestedForYou
    \/ AddSuggestedPostsBlocker
    \/ HideRightThirdHome
    \/ PassReturn
    \/ \E t \in 1..MaxTimers : TimerFire(t)
    \/ \E i \in Items, ls \in InitialLinks : InsertItem(i, ls)
    \/ \E i \in Items, h \in Hrefs : AddLink(i, h)
    \/ \E i \in Items : RemoveLink(i)
    \/ \E i \in Items : RemoveItem(i)
    \/ InsertHeader

Spec == Init /\ [][Next]_vars

\* a settled fetch resumes the startup function, which runs on to its next await
StartupStep ==
    \/ \E f \in BlockFiles : LoadBlocklistOk(f)
    \/ LoadBlocklistFail
    \/ \E f \in AllowFiles : LoadAllowlistOk(f)
    \/ LoadAllowlistFail
    \/ InstallObserver

\* the statements of processAll other than the forEach over the posts
PassStep ==
    \/ PassBegin
    \/ HideStoriesTray
    \/ RemoveSuggestedForYou
    \/ AddSuggestedPostsBlocker
    \/ HideRightThirdHome
    \/ PassReturn

\* posts.forEach(processPost) goes on: PassClassify is enabled exactly when
\* pc = "posts" and is the only step from such a state, so this is WF_vars(PassClassify)
ForEachEnds == []<>(pc # "posts")

\* the event loop runs every task of the script that is ready (a fetch settles, a
\* timer that stays armed fires), and a function that has started runs on to its
\* end; the page is under no obligation
Fairness ==
    /\ WF_vars(StartupStep)
    /\ \A t \in 1..MaxTimers : WF_vars(TimerFire(t))
    /\ WF_vars(PassStep)
    /\ ForEachEnds

\* the script on a page that inserts and removes articles, inserts the header,
\* and stops changing the tree after MaxMuts changes
NextQuiet ==
    \/ \E f \in BlockFiles : LoadBlocklistOk(f)
    \/ LoadBlocklistFail
    \/ \E f \in AllowFiles : LoadAllowlistOk(f)
    \/ LoadAllowlistFail
    \/ InstallObserver
    \/ PassBegin
    \/ PassClassify
    \/ HideStoriesTray
    \/ RemoveSuggestedForYou
    \/ AddSuggestedPostsBlocker
    \/ HideRightThirdHome
    \/ PassReturn
    \/ \E t \in 1..MaxTimers : TimerFire(t)
    \/ \E i \in Items, ls \in InitialLinks : InsertItem(i, ls)
    \/ \E i \in Items : RemoveItem(i)
    \/ InsertHeader

SpecQuiet == Init /\ [][NextQuiet]_vars /\ Fairness

\* a childList change of the page that touches no article and no header; the page
\* may go on making such changes for ever
PageTouch ==
    /\ Idle
    /\ spc = "done"
    /\ Cardinality(timers) < MaxTimers
    /\ pendingFlush' = debounceProcess.pendingFlush
    /\ timers' = debounceProcess.timers
    /\ burstNotifs' = IF timers = {} THEN 1
                      ELSE IF burstNotifs < MaxBurst THEN burstNotifs + 1 ELSE burstNotifs
    /\ burstPasses' = IF timers = {} THEN 0 ELSE burstPasses
    /\ UNCHANGED <<host, blocklist, spc, allowlist, loadState, items, suggested, observer,
                   muts, startPasses, reloads>>
    /\ UNCHANGED <<passVars, pureVars>>

\* the script on a page that inserts articles and the header and never stops
\* changing the tree
NextStream ==
    \/ \E f \in BlockFiles : LoadBlocklistOk(f)
    \/ LoadBlocklistFail
    \/ \E f \in AllowFiles : LoadAllowlistOk(f)
    \/ LoadAllowlistFail
    \/ InstallObserver
    \/ PassBegin
    \/ PassClassify
    \/ HideStoriesTray
    \/ RemoveSuggestedForYou
    \/ AddSuggestedPostsBlocker
    \/ HideRightThirdHome
    \/ PassReturn
    \/ \E t \in 1..MaxTimers : TimerFire(t)
    \/ \E i \in Items, ls \in InitialLinks : InsertItem(i, ls)
    \/ InsertHeader
    \/ PageTouch

SpecStream == Init /\ [][NextStream]_vars /\ Fairness

TypeOK ==
    /\ pc \in {"idle", "reset", "posts", "return"} \cup Routines
    /\ pendingFlush \in 0..MaxTimers
    /\ timers \subseteq 1..MaxTimers


(***************************************************************************)
(* Properties of the classifier and of the pass                            *)
(***************************************************************************)
\* the article the last processPost call of the running pass was made on, now
LastArticle == items[last.item]

\* what the extractor returns for the article as processPost received it
LastExtract == extractUsernameFromPost(last.before)

Suppressed(a) == a.display = "none"

\* the posts of the running pass have all been visited
PostsDone == pc \in Routines \cup {"return"}

\* C1: processPost on an article that already carries the processed marker is a
\* no-op: the processed, hidden and unknown markers and the visibility stay as they
\* were, and the call performs no extraction.
C1_ProcessedIsNoOp ==
    (last.item # 0 /\ last.before.processed) =>
        /\ LastArticle = last.before
        /\ ~last.extracted

C1_Witness ==
    /\ last.item # 0
    /\ last.before.processed
    /\ last.before.hidden
    /\ ~last.before.unknown
    /\ LastExtract \in allowlist

\* C2: an unprocessed article from which the extractor recovers no identifier ends
\* processed, hidden, unknown and visually suppressed, whatever the allowlist holds.
C2_FailClosed ==
    (last.item # 0 /\ ~last.before.processed /\ ~Truthy(LastExtract)) =>
        /\ LastArticle.processed
        /\ LastArticle.hidden
        /\ LastArticle.unknown
        /\ Suppressed(LastArticle)

C2_Witness ==
    /\ last.item # 0
    /\ ~last.before.processed
    /\ ~Truthy(LastExtract)
    /\ allowlist = {Alice, Bob}
    /\ LastArticle.unknown
    /\ Suppressed(LastArticle)

\* C3: an unprocessed article whose extraction yields an identifier ends processed;
\* visible with hidden and unknown cleared if the identifier is in the allowlist,
\* hidden with unknown cleared if it is not.
C3_MemberDecides ==
    (last.item # 0 /\ ~last.before.processed /\ Truthy(LastExtract)) =>
        /\ LastArticle.processed
        /\ ~LastArticle.unknown
        /\ IF LastExtract \in allowlist
           THEN ~LastArticle.hidden /\ ~Suppressed(LastArticle)
           ELSE LastArticle.hidden /\ Suppressed(LastArticle)

\* allowlist {alice}: item A (/alice/) is revealed and item B (/bob/) is hidden
C3_Witness ==
    /\ allowlist = {Alice}
    /\ last.item # 0
    /\ ~last.before.processed
    /\ LastExtract = Bob
    /\ LastArticle.hidden
    /\ ~LastArticle.unknown
    /\ \E a \in Items :
          /\ a # last.item
          /\ items[a].links = <<HrefAlice>>
          /\ items[a].processed
          /\ ~items[a].hidden
          /\ ~Suppressed(items[a])

\* C4: in every reachable state every article with the unknown marker also has the
\* hidden marker.
C4_UnknownImpliesHidden == \A i \in Items : items[i].unknown => items[i].hidden

\* an article marked unknown whose processed marker the retry reset has cleared
C4_Witness ==
    \E i \in Items : items[i].unknown /\ items[i].hidden /\ ~items[i].processed

\* C5: an article a pass classified as unknown that has gained a qualifying link
\* with an allowlisted identifier is visible, hidden and unknown cleared, once the
\* next pass has visited its posts; as long as it is marked unknown it is suppressed.
C5_RetryConverges ==
    /\ PostsDone =>
          \A i \in unknownAtStart :
             (Truthy(extractUsernameFromPost(items[i]))
                 /\ extractUsernameFromPost(items[i]) \in allowlist) =>
                (~Suppressed(items[i]) /\ ~items[i].hidden /\ ~items[i].unknown)
    /\ \A i \in Items : items[i].unknown => Suppressed(items[i])

C5_Witness ==
    /\ PostsDone
    /\ \E i \in unknownAtStart :
          /\ extractUsernameFromPost(items[i]) \in allowlist
          /\ Len(items[i].links) = 2
          /\ ~Suppressed(items[i])
          /\ ~items[i].hidden


(***************************************************************************)
(* Properties of the scheduler                                             *)
(***************************************************************************)
\* C6: the N >= 1 calls of debounceProcess made after the scheduler was idle and
\* before its timer fires arm exactly one timer, and lead to exactly one call of
\* processAll.
C6_BurstCoalesces ==
    burstNotifs >= 1 =>
        IF timers = {} THEN burstPasses = 1
        ELSE burstPasses = 0 /\ Cardinality(timers) = 1

\* a burst of two notifications or more, its single pass run to its end
C6_Witness ==
    /\ burstNotifs >= 2
    /\ burstPasses = 1
    /\ timers = {}
    /\ pc = "return"

\* C7: at most one timer is armed, pendingFlush holds its handle, and no timer is
\* armed while a pass is on the stack: a second pass cannot start inside a pass.
C7_OnePassAtATime ==
    /\ Cardinality(timers) <= 1
    /\ timers = IF pendingFlush = 0 THEN {} ELSE {pendingFlush}
    /\ pc # "idle" => timers = {}

\* a pass started by the timer of a burst of notifications is on the stack
C7_Witness ==
    /\ pc = "posts"
    /\ spc = "done"
    /\ burstNotifs >= 2
    /\ burstPasses = 1

\* C8: an article hidden as a non-member whose identifier the reloaded allowlist
\* contains is visible once one more pass has visited its posts.
C8_ReloadReveals ==
    PostsDone =>
        \A i \in Items :
           (/\ items[i].where = "attached"
            /\ Truthy(hiddenAs[i])
            /\ extractUsernameFromPost(items[i]) = hiddenAs[i]
            /\ hiddenAs[i] \in allowlist) =>
               (~items[i].hidden /\ ~Suppressed(items[i]))

\* the routines that come after r in the order of processAll
Later(r) ==
    { RoutineOrder[k] : k \in { j \in 1..Len(RoutineOrder) :
          \E m \in 1..(j - 1) : RoutineOrder[m] = r } }

\* C9: when a suppression routine throws, every later routine has still run by the
\* time processAll is left.
C9_RoutinesIsolated ==
    (pc = "return" /\ thrown # "none") => Later(thrown) \subseteq ran

(***************************************************************************)
(* The normalizer as a pure function                                       *)
(***************************************************************************)
NormChars == {" ", "@", "#", "U", "u"}

RECURSIVE StringsUpTo(_)
StringsUpTo(n) ==
    IF n = 0 THEN {<<>>}
    ELSE LET shorter == StringsUpTo(n - 1)
         IN  shorter \cup { Append(w, c) : w \in shorter, c \in NormChars }

UserExample == <<" ", "@", "U", "s", "e", "r", " ">>

User == <<"u", "s", "e", "r">>

NormInputs == StringsUpTo(MaxLen) \cup {UserExample}

InitNormalize ==
    /\ host = InstagramHost
    /\ InitPage
    /\ nraw \in NormInputs
    /\ nout = Unset

\* normalizeUsername(nraw)
ApplyNormalize ==
    /\ nout = Unset
    /\ nout' = normalizeUsername(nraw)
    /\ UNCHANGED <<host, blocklist, spc, allowlist, loadState, items, suggested, observer, muts, startPasses,
                   reloads, nraw>>
    /\ UNCHANGED <<passVars, schedVars>>

\* loadAllowlistFromFile() on a file whose text is the line nraw and a comment
ApplyLoad ==
    /\ nout # Unset
    /\ spc = "loadBlocklist"
    /\ spc' = "loaded"
    /\ allowlist' = parseAllowlist(<<nraw, <<"#", "u">> >>)
    /\ loadState' = "ok"
    /\ UNCHANGED <<host, blocklist, items, suggested, observer, muts, startPasses, reloads>>
    /\ UNCHANGED <<passVars, schedVars, pureVars>>

NextNormalize == ApplyNormalize \/ ApplyLoad

SpecNormalize == InitNormalize /\ [][NextNormalize]_vars

IsUpper(c) == LowerChar(c) # c

NormalForm(s) ==
    /\ \A k \in 1..Len(s) : ~IsUpper(s[k])
    /\ s # <<>> => (Head(s) # "@" /\ ~IsSpace(Head(s)) /\ ~IsSpace(s[Len(s)]))

\* C10: for every non-empty input the normalizer returns a lower-cased string
\* without leading '@' and without surrounding whitespace, normalize(" @User ") is
\* "user", and every element of the loaded allowlist is in this normal form.
C10_Normalized ==
    /\ (nout # Unset /\ nraw # <<>>) =>
          /\ nout # NULL
          /\ NormalForm(nout)
          /\ nraw = UserExample => nout = User
    /\ \A e \in allowlist : NormalForm(e)


(***************************************************************************)
(* Properties of loading and startup                                       *)
(***************************************************************************)
\* C11: when loading the allowlist fails the allowlist is the empty set, the
\* startup function goes on to its pass, and every article a pass classifies
\* afterwards ends hidden, whatever identifier is extracted from it.
C11_FailedLoadDeniesAll ==
    loadState = "failed" =>
        /\ allowlist = {}
        /\ startPasses = 1
        /\ (last.item # 0 /\ last.extracted) =>
              (LastArticle.hidden /\ Suppressed(LastArticle))

C11_Witness ==
    /\ loadState = "failed"
    /\ last.item # 0
    /\ last.extracted
    /\ LastExtract = Alice
    /\ LastArticle.hidden
    /\ ~LastArticle.unknown

StartupEnded == {"blocked", "offsite"}

OnTargetSite == {"loadAllowlist", "firstPass", "installObserver", "done", "failed"}

\* C12: the block list is loaded first; on a blocked host or off the target site
\* the allowlist is never loaded, no pass runs and no observer is installed;
\* otherwise the allowlist is loaded, then exactly one pass runs, then the observer
\* is installed: no pass runs before the allowlist load has completed.
C12_StartupOrder ==
    /\ spc \in StartupEnded \cup {"loadBlocklist"} =>
          /\ loadState = "none"
          /\ startPasses = 0
          /\ ~observer
          /\ pc = "idle"
          /\ timers = {}
    /\ spc = "blocked" => isBlockedHost(host)
    /\ spc = "offsite" => (~isBlockedHost(host) /\ host # InstagramHost)
    /\ spc \in OnTargetSite => (~isBlockedHost(host) /\ host = InstagramHost)
    /\ spc = "loadAllowlist" => (loadState = "none" /\ startPasses = 0 /\ pc = "idle")
    /\ pc # "idle" => loadState # "none"
    /\ spc \in OnTargetSite \ {"loadAllowlist"} => startPasses = 1
    /\ spc = "firstPass" => pc # "idle"
    /\ observer <=> spc = "done"
    /\ timers # {} => observer

\* startup has run to its end on the target site
C12_Witness ==
    /\ spc = "done"
    /\ observer
    /\ loadState = "ok"
    /\ startPasses = 1
    /\ blocklist = {}
    /\ pc = "idle"


(***************************************************************************)
(* Frame and stability properties of a pass                                *)
(***************************************************************************)
\* C14: no step of a pass over the document changes an article that is outside
\* the document: its processed, hidden and unknown markers (and its style and
\* links) are the same after the step.
C14_OutsideRootUntouched ==
    [][pc # "idle" =>
          \A i \in Items : items[i].where # "attached" => items'[i] = items[i]]_vars

\* a timer pass over the document has run to its end while a processed, hidden
\* article is outside the document
C14_Witness ==
    /\ pc = "return"
    /\ burstPasses = 1
    /\ ran = Routines
    /\ \E i \in Items :
          /\ items[i].where = "detached"
          /\ items[i].processed
          /\ items[i].hidden
          /\ Suppressed(items[i])

\* C15: the retry reset changes nothing but the processed marker of unknown
\* articles; an unknown article is suppressed, and the only step after which it
\* is visible is a processPost call on it that extracted an allowlisted identifier.
C15_UnknownStaysHidden ==
    [][\A i \in Items :
          /\ (pc = "reset" /\ ~items[i].unknown) => items'[i] = items[i]
          /\ items[i].unknown =>
                /\ Suppressed(items[i])
                /\ pc = "reset" =>
                      /\ items'[i].hidden
                      /\ items'[i].unknown
                      /\ Suppressed(items'[i])
                      /\ items'[i] = [items[i] EXCEPT !.processed = items'[i].processed]
                /\ ~Suppressed(items'[i]) =>
                      /\ pc = "posts"
                      /\ last'.item = i
                      /\ last'.extracted
                      /\ Truthy(last'.username)
                      /\ last'.username \in allowlist]_vars

\* the reset has cleared the processed marker of an unknown article, which is
\* waiting, still hidden, for its processPost call
C15_Witness ==
    /\ pc = "posts"
    /\ \E i \in unknownAtStart :
          /\ ~items[i].processed
          /\ items[i].unknown
          /\ items[i].hidden
          /\ Suppressed(items[i])
          /\ Len(queue) >= 1
          /\ Head(queue) = i

\* C16: the processed marker is removed only from unknown articles, by the retry
\* reset; no step changes the processed, hidden or unknown marker or the
\* visibility of an article that is processed and not unknown.
C16_ResolvedIsFinal ==
    [][\A i \in Items :
          /\ (items[i].processed /\ ~items'[i].processed) =>
                (items[i].unknown /\ pc = "reset")
          /\ (items[i].processed /\ ~items[i].unknown) =>
                /\ items'[i].processed
                /\ items'[i].hidden = items[i].hidden
                /\ ~items'[i].unknown
                /\ items'[i].display = items[i].display]_vars

\* a later pass has gone by an article hidden for a non-member identifier, from
\* which the extractor would now recover an identifier of the allowlist
C16_Witness ==
    /\ pc = "return"
    /\ burstPasses >= 1
    /\ \E i \in Items :
          /\ items[i].where = "attached"
          /\ items[i].processed
          /\ items[i].hidden
          /\ ~items[i].unknown
          /\ Truthy(hiddenAs[i])
          /\ extractUsernameFromPost(items[i]) \in allowlist

\* C19: a processPost call that ran the extractor and left the article visible, or
\* processed without the hidden marker, extracted an identifier that is an
\* element of the allowlist of that moment.
C19_RevealOnlyMembers ==
    (/\ last.item # 0
     /\ ~last.before.processed
     /\ \/ ~Suppressed(LastArticle)
        \/ LastArticle.processed /\ ~LastArticle.hidden) =>
        /\ last.extracted
        /\ last.username # NULL
        /\ last.username # <<>>
        /\ last.username \in allowlist

\* bob's article revealed under the allowlist {alice, bob}
C19_Witness ==
    /\ allowlist = {Alice, Bob}
    /\ last.item # 0
    /\ ~last.before.processed
    /\ last.username = Bob
    /\ LastArticle.processed
    /\ ~LastArticle.hidden
    /\ ~Suppressed(LastArticle)


(***************************************************************************)
(* The extractor as a pure function                                        *)
(***************************************************************************)
HrefReel == <<"/","r","e","e","l","/","x">>

HrefStory == <<"/","s","t","o","r","i","e","s","/","a","/">>

HrefExplore == <<"/","e","x","p","l","o","r","e","/">>

\* reserved segment written with an upper-case letter, no trailing slash
HrefUpperP == <<"/","P">>

HrefAtBob == <<"/","@","B","o","b">>

HrefQuery == <<"/">> \o Alice \o <<"?","x">>

\* the link to the home page: no first path segment
HrefRoot == <<"/">>

\* not root-relative: the selector a[href^='/'] does not match it
HrefRelative == Bob \o <<"/">>

ExtractHrefs ==
    Hrefs \cup {HrefReel, HrefStory, HrefExplore, HrefUpperP, HrefAtBob, HrefQuery,
                HrefRoot, HrefRelative}

RECURSIVE LinkSeqsUpTo(_)
LinkSeqsUpTo(n) ==
    IF n = 0 THEN {<<>>}
    ELSE LET shorter == LinkSeqsUpTo(n - 1)
         IN  shorter \cup { Append(w, h) : w \in shorter, h \in ExtractHrefs }

\* an article of the page, its links in document order
InitExtract ==
    /\ host = InstagramHost
    /\ blocklist = {}
    /\ spc = "loadBlocklist"
    /\ allowlist = {}
    /\ \E ls \in LinkSeqsUpTo(MaxLinks) :
          items = [i \in Items |->
                     IF i = 1 THEN [NoItem EXCEPT !.where = "attached", !.links = ls]
                     ELSE NoItem]
    /\ suggested = "absent"
    /\ pendingFlush = 0
    /\ timers = {}
    /\ observer = FALSE
    /\ pc = "idle"
    /\ queue = <<>>
    /\ ran = {}
    /\ thrown = "none"
    /\ queued = FALSE
    /\ muts = 0
    /\ reloads = 0
    /\ burstNotifs = 0
    /\ burstPasses = 0
    /\ last = NoCall
    /\ unknownAtStart = {}
    /\ hiddenAs = [i \in Items |-> NULL]
    /\ loadState = "none"
    /\ startPasses = 0
    /\ nraw = NULL
    /\ nout = Unset

\* extractUsernameFromPost(article) on the article items[1]
ApplyExtract ==
    /\ nout = Unset
    /\ nout' = extractUsernameFromPost(items[1])
    /\ UNCHANGED <<host, blocklist, spc, allowlist, loadState, items, suggested, observer,
                   muts, startPasses, reloads, nraw>>
    /\ UNCHANGED <<passVars, schedVars>>

NextExtract == ApplyExtract

SpecExtract == InitExtract /\ [][NextExtract]_vars

IsPermalink(href) ==
    \E kind \in {<<"p">>, <<"r","e","e","l">>, <<"s","t","o","r","i","e","s">>} :
       startsWith(href, <<"/">> \o kind \o <<"/">>)

IsRootRelative(href) == href # <<>> /\ Head(href) = "/"

\* the link is root-relative, no permalink, and has a first path segment that is
\* not reserved
Survives(href) ==
    /\ IsRootRelative(href)
    /\ ~IsPermalink(href)
    /\ firstSegment(href) # NULL
    /\ \A word \in exclude : toLowerCase(firstSegment(href)) # word

Surviving(links) == { k \in 1..Len(links) : Survives(links[k]) }

FirstSurviving(links) ==
    CHOOSE k \in Surviving(links) : \A j \in Surviving(links) : k <= j

\* C17: the extractor returns null exactly when no link of the article survives
\* the filtering (root-relative, no post/reel/story permalink, first path segment
\* not reserved); otherwise it returns the normalized first path segment of the
\* first surviving link in document order, whatever links follow it.
C17_FirstSurvivingLink ==
    nout # Unset =>
        LET links == items[1].links
        IN  IF Surviving(links) = {}
            THEN nout = NULL
            ELSE /\ nout # NULL
                 /\ nout = normalizeUsername(firstSegment(links[FirstSurviving(links)]))

\* a link with a reserved first segment is skipped and the normalized segment of
\* the link after it is returned
C17_Witness ==
    /\ nout = Bob
    /\ Len(items[1].links) = 2
    /\ items[1].links[1] = HrefExplore
    /\ items[1].links[2] = HrefAtBob


(***************************************************************************)
(* Termination of the observer / scheduler / pass loop                     *)
(***************************************************************************)
Quiet == pc = "idle" /\ timers = {} /\ pendingFlush = 0 /\ ~queued

\* C13: once the page has stopped changing the tree (it makes at most MaxMuts
\* changes), the script runs finitely many passes and then the scheduler is idle
\* for ever: no pass is running, no timer is armed and no notification is queued.
C13_LoopTerminates == <>[]Quiet

\* the pass started by the notification of the script's own placeholder insertion
\* ends with the placeholder in place and nothing queued
C13_Witness ==
    /\ pc = "return"
    /\ spc = "done"
    /\ suggested = "blocked"
    /\ "addSuggestedPostsBlocker" \in ran
    /\ ~queued
    /\ timers = {}


(***************************************************************************)
(* Progress of the scheduler                                               *)
(***************************************************************************)
\* C18: after a notification the timer handle is set, and from every state where
\* it is set a pass begins later, even on a page that changes the tree for ever:
\* a call of debounceProcess made while the timer is pending leaves the timer alone.
C18_NoStarvation == (pendingFlush # 0) ~> (pc = "reset")

\* the pass of a burst of several notifications has begun
C18_Witness ==
    /\ pc = "reset"
    /\ spc = "done"
    /\ burstNotifs = MaxBurst
    /\ burstPasses = 1
    /\ pendingFlush = 0

\* the scheduler is idle and the tree change of this step is notified
Observed == observer /\ pc = "idle" /\ pendingFlush = 0 /\ burstNotifs' = 1

\* C20: pendingFlush is cleared before the pass body runs, so it is null during
\* every pass and when a pass is left with an exception; a notification that finds
\* the scheduler idle arms one timer, and an armed timer leads to a pass.
C20_ThrowLeavesSchedulerIdle ==
    /\ [](pc # "idle" => (pendingFlush = 0 /\ timers = {}))
    /\ [][Observed => (pendingFlush' # 0 /\ timers' = {pendingFlush'})]_vars
    /\ (timers # {}) ~> (pc = "reset" /\ pendingFlush = 0)

\* a timer pass is left with an exception and the scheduler is idle
C20_Witness ==
    /\ pc = "return"
    /\ thrown # "none"
    /\ spc = "done"
    /\ burstPasses = 1
    /\ pendingFlush = 0
    /\ timers = {}

====
